---- MODULE Spec2Model ----
(***************************************************************************)
(* Model of the JWT authentication gate of src/3c/ej3c2.py: the login      *)
(* endpoint, generate_jwt_token, and the jwt_required decorator guarding   *)
(* /api/secret.  The server keeps no record of the tokens it issued; the   *)
(* clients of the guarded route present any token a login up to now can    *)
(* have returned, or what they derive from one without the secret.         *)
(* Time is counted in ticks (TicksPerSec ticks per second):                *)
(* datetime.utcnow() has sub-second resolution while the iat/exp claims    *)
(* are encoded as whole seconds.  jwt.encode / jwt.decode follow PyJWT 2.x *)
(* (>= 2.6): compact HS256 tokens, base64url segments, signature checked   *)
(* before the registered claims, exp compared with "exp <= now".           *)
(* A second part models the MongoDB library database of src/3a/ej3a4.py.   *)
(* Spec runs the JWT application, SpecIssue a client that keeps the tokens *)
(* of two logins, SpecMongo the calls on the database.                     *)
(***************************************************************************)
EXTENDS Integers, Sequences, FiniteSets, TLC

VARIABLES JWT_SECRET_KEY, USER_CREDENTIALS, now, request, response,
          handlerCalls, decodeCalls, principal, lookups, held,
          autores, libros, oid_inc, llamada,
          authors, books, http,
          tablas, transaccion, consulta,
          wrapped

\* the state of the JWT application and of one request served by it
jwtVars == <<JWT_SECRET_KEY, USER_CREDENTIALS, now, request, response,
             handlerCalls, decodeCalls, principal, lookups>>

\* the state of the MongoDB library database and of one call on it
mongoVars == <<autores, libros, oid_inc, llamada>>

\* the tables of the REST APIs and the last request served
restVars == <<authors, books, http>>

\* the SQLite library database, its open transaction and the last call
sqlVars == <<tablas, transaccion, consulta>>

vars == <<jwtVars, held, mongoVars, restVars, sqlVars, wrapped>>

\* what each part of the model leaves alone
outsideJwt == <<mongoVars, restVars, sqlVars, wrapped>>

outsideMongo == <<jwtVars, held, restVars, sqlVars, wrapped>>

outsideRest == <<jwtVars, held, mongoVars, sqlVars, wrapped>>

outsideSql == <<jwtVars, held, mongoVars, restVars, wrapped>>

(***************************************************************************)
(* Bounds of the model.                                                    *)
(***************************************************************************)
\* clock ticks per second (the sub-second resolution of utcnow())
TicksPerSec == 2

\* length in seconds of each stretch of time in which the clock is observed
WindowSecs == 2

\* most ticks that pass between two consecutive clock reads of one handler
MaxLatency == 1

(***************************************************************************)
(* Configuration.                                                          *)
(***************************************************************************)
JWT_EXPIRATION_DELTA == 3600

Period == JWT_EXPIRATION_DELTA * TicksPerSec

Window == WindowSecs * TicksPerSec

\* The instants at which the clock is observed: the first WindowSecs seconds
\* from the start, and the first WindowSecs seconds one token lifetime later.
Instants == {t \in 0..(Period + Window - 1) : t % Period < Window}

(***************************************************************************)
(* Python values carried by the JSON body: strings and None.               *)
(***************************************************************************)
PyStr(s) == [t |-> "str", v |-> s]

PyNone == [t |-> "none", v |-> ""]

Usernames == {PyStr("usuario_demo"), PyStr("intruso"), PyStr("")}

Passwords == {PyStr("password123"), PyStr("wrong"), PyNone}

\* dict.get(key): the stored value, or None when the key is missing
DictGet(d, key) == IF key \in DOMAIN d THEN d[key] ELSE PyNone

\* request.get_json() results: None (json = FALSE), a JSON object with its
\* fields, or a JSON array with its items
JsonObject(f) == [json |-> TRUE, kind |-> "object", fields |-> f, items |-> {}]

JsonArray(s) == [json |-> TRUE, kind |-> "array", fields |-> <<>>, items |-> s]

\* Python truthiness of data: None, {} and [] are falsy
Falsy(data) ==
    \/ ~data.json
    \/ data.kind = "object" /\ DOMAIN data.fields = {}
    \/ data.kind = "array" /\ data.items = {}

\* key in data: a key of the object, or an item of the array
Contains(data, key) ==
    IF data.kind = "object" THEN key \in DOMAIN data.fields ELSE key \in data.items

\* the bodies posted: None, objects holding any subset of the two fields,
\* and arrays of the two field names
Bodies ==
    {[json |-> FALSE, kind |-> "null", fields |-> <<>>, items |-> {}]} \cup
    {JsonObject(<<>>)} \cup
    {JsonObject([k \in {"username"} |-> u]) : u \in Usernames} \cup
    {JsonObject([k \in {"password"} |-> p]) : p \in Passwords} \cup
    {JsonObject([k \in {"username", "password"} |->
                     IF k = "username" THEN u ELSE p]) :
        u \in Usernames, p \in Passwords} \cup
    {JsonArray(s) : s \in SUBSET {"username", "password"}}

(***************************************************************************)
(* Tokens.  A compact token has three base64url segments; the signature    *)
(* segment of an HS256 token is 43 characters carrying 256 signature bits  *)
(* and 2 unused bits ("slack") in its last character.                      *)
(***************************************************************************)
\* HMAC-SHA256 as an ideal MAC: the tag determines key and message; flip /= 0
\* stands for the tag with some bit flipped
HMAC(key, msg) == [key |-> key, msg |-> msg, flip |-> 0]

SigningInput(alg, claims) == [alg |-> alg, claims |-> claims]

\* variant: the timestamps are cut to whole minutes
ToTimestamp_minutes(t) == (t \div (60 * TicksPerSec)) * 60

\* timegm(dt.utctimetuple()): whole seconds, sub-second part dropped
ToTimestamp(t) == t \div TicksPerSec

\* base64url_encode of the signature: unused trailing bits are zero
Base64UrlEncode(bytes) == [bytes |-> bytes, slack |-> 0]

\* base64url_decode: the unused trailing bits are ignored
Base64UrlDecode(seg) == seg.bytes

jwt_encode(payload, key) ==
    LET seg == Base64UrlEncode(HMAC(key, SigningInput("HS256", payload)))
    IN [segments |-> 3, alg |-> "HS256", claims |-> payload,
        sig |-> seg.bytes, slack |-> seg.slack]

\* variant: the token is signed with a key other than JWT_SECRET_KEY
generate_jwt_token_otherkey(username, t1, t2) ==
    jwt_encode([sub |-> username,
                iat |-> ToTimestamp(t1),
                exp |-> ToTimestamp(t2 + Period)],
               "otra_clave")

\* generate_jwt_token(username), the clock read at t1 for iat and t2 for exp
generate_jwt_token(username, t1, t2) ==
    jwt_encode([sub |-> username,
                iat |-> ToTimestamp(t1),
                exp |-> ToTimestamp(t2 + Period)],
               JWT_SECRET_KEY)

\* variant: the signature is not verified
jwt_decode_noverify(token, key, t) ==
    IF token.segments # 3 THEN "DecodeError"
    ELSE IF token.alg \notin {"HS256"} THEN "InvalidAlgorithmError"
    ELSE IF token.claims.iat * TicksPerSec > t THEN "ImmatureSignatureError"
    ELSE IF token.claims.exp * TicksPerSec <= t THEN "ExpiredSignatureError"
    ELSE "ok"

\* variant: the claims are validated before the signature
jwt_decode_expfirst(token, key, t) ==
    IF token.segments # 3 THEN "DecodeError"
    ELSE IF token.alg \notin {"HS256"} THEN "InvalidAlgorithmError"
    ELSE IF token.claims.iat * TicksPerSec > t THEN "ImmatureSignatureError"
    ELSE IF token.claims.exp * TicksPerSec <= t THEN "ExpiredSignatureError"
    ELSE IF Base64UrlDecode([bytes |-> token.sig, slack |-> token.slack])
              # HMAC(key, SigningInput(token.alg, token.claims))
         THEN "InvalidSignatureError"
    ELSE "ok"

\* variant: exp is enforced during the second of expiry only
jwt_decode_expiredonce(token, key, t) ==
    IF token.segments # 3 THEN "DecodeError"
    ELSE IF token.alg \notin {"HS256"} THEN "InvalidAlgorithmError"
    ELSE IF Base64UrlDecode([bytes |-> token.sig, slack |-> token.slack])
              # HMAC(key, SigningInput(token.alg, token.claims))
         THEN "InvalidSignatureError"
    ELSE IF token.claims.iat * TicksPerSec > t THEN "ImmatureSignatureError"
    ELSE IF token.claims.exp * TicksPerSec <= t
            /\ t < (token.claims.exp + 1) * TicksPerSec THEN "ExpiredSignatureError"
    ELSE "ok"

\* jwt.decode(token, key, algorithms=['HS256']) at clock reading t:
\* "ok" or the name of the exception raised
jwt_decode(token, key, t) ==
    IF token.segments # 3 THEN "DecodeError"
    ELSE IF token.alg \notin {"HS256"} THEN "InvalidAlgorithmError"
    ELSE IF Base64UrlDecode([bytes |-> token.sig, slack |-> token.slack])
              # HMAC(key, SigningInput(token.alg, token.claims))
         THEN "InvalidSignatureError"
    ELSE IF token.claims.iat * TicksPerSec > t THEN "ImmatureSignatureError"
    ELSE IF token.claims.exp * TicksPerSec <= t THEN "ExpiredSignatureError"
    ELSE "ok"

(***************************************************************************)
(* Responses.                                                              *)
(***************************************************************************)
NoTime == 0 - 1

ErrorResponse(status, msg) ==
    [status |-> status, error |-> msg, message |-> "", token |-> {},
     expires_at |-> NoTime]

\* the four returns of decorated_function that carry an error, by except
\* clause / early return
MissingHeaderResponse == ErrorResponse(401, "Token invalido o ausente")

WrongSchemeResponse == ErrorResponse(401, "Token invalido o ausente")

ExpiredResponse == ErrorResponse(401, "Token expirado")

InvalidTokenResponse == ErrorResponse(401, "Token invalido o ausente")

ValueErrorResponse == ErrorResponse(401, "Token invalido o ausente")

InvalidCredentials == ErrorResponse(401, "Credenciales invalidas")

BadRequest == ErrorResponse(400, "Username y password son requeridos")

SecretResponse ==
    [status |-> 200, error |-> "", message |-> "Has accedido al secreto con JWT!",
     token |-> {}, expires_at |-> NoTime]

LoginResponse(tok, exp_at) ==
    [status |-> 200, error |-> "", message |-> "", token |-> {tok},
     expires_at |-> exp_at]

\* Flask's answer to an exception that leaves the view function
InternalServerError == ErrorResponse(500, "Internal Server Error")

NoBody == [json |-> FALSE, kind |-> "null", fields |-> <<>>, items |-> {}]

(***************************************************************************)
(* Authorization header values.  A header is absent, or the string         *)
(* scheme [ " " token ]; the token text is kept in its parsed form.        *)
(***************************************************************************)
NoClaims == [sub |-> PyStr(""), iat |-> 0, exp |-> 0]

\* token texts without the three-segment structure: "" and "abc"
RawToken(n) ==
    [segments |-> n, alg |-> "", claims |-> NoClaims,
     sig |-> HMAC("", SigningInput("", NoClaims)), slack |-> 0]

EmptyToken == RawToken(0)

GarbageToken == RawToken(1)

NoHeader == [present |-> FALSE, scheme |-> "", space |-> FALSE, token |-> EmptyToken]

HeaderOf(scheme, tok) == [present |-> TRUE, scheme |-> scheme, space |-> TRUE, token |-> tok]

BareHeader(scheme) == [present |-> TRUE, scheme |-> scheme, space |-> FALSE, token |-> EmptyToken]

\* Python truthiness of request.headers.get('Authorization')
Truthy(h) == h.present /\ ~(h.scheme = "" /\ ~h.space)

\* auth_header.split(' ', 1)
Split(h) == IF h.space THEN <<h.scheme, h.token>> ELSE <<h.scheme>>

\* variant: the scheme word is compared as written
Lower_asis(s) == s

\* str.lower() on the scheme words used
Lower(s) ==
    CASE s \in {"Bearer", "bearer", "BEARER", "bEaReR"} -> "bearer"
      [] s \in {"Basic", "basic"} -> "basic"
      [] OTHER -> s

Schemes == {"Bearer", "bearer", "BEARER", "Basic", ""}

\* what a client can derive from a token it holds without knowing the key
Tampered(tk) ==
    {[tk EXCEPT !.claims.exp = @ + JWT_EXPIRATION_DELTA],
     [tk EXCEPT !.claims.sub = PyStr("admin")],
     [tk EXCEPT !.alg = "none"],
     [tk EXCEPT !.sig.flip = 1],
     [tk EXCEPT !.segments = 2]} \cup
    {[tk EXCEPT !.slack = k] : k \in 1..3}

AttackerKey == "clave_del_atacante"

\* tokens signed with a key other than the secret, differing only in exp
Forged ==
    {jwt_encode([sub |-> PyStr("usuario_demo"), iat |-> 0, exp |-> e], AttackerKey) :
        e \in {1, 2 * JWT_EXPIRATION_DELTA + WindowSecs}}

\* login(): the credential check
CredentialsOk(username, password) == DictGet(USER_CREDENTIALS, username) = password

\* the tokens login can have returned by time t: one for every username that
\* passes the credential check with some password and every pair of clock
\* readings t1 <= t2 <= t of generate_jwt_token
Issuable(t) ==
    {generate_jwt_token(u, r[1], r[2]) :
        u \in {n \in Usernames : \E p \in Passwords : CredentialsOk(n, p)},
        r \in {q \in Instants \X Instants :
                  q[1] <= q[2] /\ q[2] <= q[1] + MaxLatency /\ q[2] <= t}}

\* the tokens of Issuable(t) that carry the stored user as subject
IssuableTo(u, t) == {tk \in Issuable(t) : tk.claims.sub = u}

\* the token texts presented with the Bearer scheme: every issued token,
\* the stored user's tokens tampered with, forged and corrupt ones
TokenTexts ==
    Issuable(now)
    \cup UNION {Tampered(tk) : tk \in IssuableTo(PyStr("usuario_demo"), now)}
    \cup Forged \cup {EmptyToken, GarbageToken}

Headers ==
    {NoHeader} \cup {BareHeader(s) : s \in Schemes}
    \cup {HeaderOf(s, tk) : s \in Schemes,
                            tk \in IssuableTo(PyStr("usuario_demo"), now)
                                   \cup {EmptyToken, GarbageToken}}
    \cup {HeaderOf("Bearer", tk) : tk \in TokenTexts}

(***************************************************************************)
(* The guard and the handlers.                                             *)
(***************************************************************************)
Outcome(resp, h, d) == [response |-> resp, handler |-> h, decode |-> d]

\* protected_secret(): the wrapped handler
protected_secret == SecretResponse

\* variant: a request without header falls through to the handler
decorated_function_nomissing(auth_header, t) ==
    IF ~Truthy(auth_header) THEN Outcome(protected_secret, 1, 0)
    ELSE LET parts == Split(auth_header) IN
         IF Len(parts) # 2 THEN Outcome(ValueErrorResponse, 0, 0)
         ELSE IF Lower(parts[1]) # "bearer" THEN Outcome(WrongSchemeResponse, 0, 0)
         ELSE LET r == jwt_decode(parts[2], JWT_SECRET_KEY, t) IN
              CASE r = "ok" -> Outcome(protected_secret, 1, 1)
                [] r = "ExpiredSignatureError" -> Outcome(ExpiredResponse, 0, 1)
                [] OTHER -> Outcome(InvalidTokenResponse, 0, 1)

\* variant: the scheme word is not checked
decorated_function_noscheme(auth_header, t) ==
    IF ~Truthy(auth_header) THEN Outcome(MissingHeaderResponse, 0, 0)
    ELSE LET parts == Split(auth_header) IN
         IF Len(parts) # 2 THEN Outcome(ValueErrorResponse, 0, 0)
         ELSE LET r == jwt_decode(parts[2], JWT_SECRET_KEY, t) IN
              CASE r = "ok" -> Outcome(protected_secret, 1, 1)
                [] r = "ExpiredSignatureError" -> Outcome(ExpiredResponse, 0, 1)
                [] OTHER -> Outcome(InvalidTokenResponse, 0, 1)

\* variant: InvalidTokenError is caught before its subclass
\* ExpiredSignatureError
decorated_function_exceptorder(auth_header, t) ==
    IF ~Truthy(auth_header) THEN Outcome(MissingHeaderResponse, 0, 0)
    ELSE LET parts == Split(auth_header) IN
         IF Len(parts) # 2 THEN Outcome(ValueErrorResponse, 0, 0)
         ELSE IF Lower(parts[1]) # "bearer" THEN Outcome(WrongSchemeResponse, 0, 0)
         ELSE LET r == jwt_decode(parts[2], JWT_SECRET_KEY, t) IN
              CASE r = "ok" -> Outcome(protected_secret, 1, 1)
                [] OTHER -> Outcome(InvalidTokenResponse, 0, 1)

\* variant: the guard rejects a decoded payload whose sub is empty
decorated_function_subrequired(auth_header, t) ==
    IF ~Truthy(auth_header) THEN Outcome(MissingHeaderResponse, 0, 0)
    ELSE LET parts == Split(auth_header) IN
         IF Len(parts) # 2 THEN Outcome(ValueErrorResponse, 0, 0)
         ELSE IF Lower(parts[1]) # "bearer" THEN Outcome(WrongSchemeResponse, 0, 0)
         ELSE LET r == jwt_decode(parts[2], JWT_SECRET_KEY, t) IN
              CASE r = "ok" /\ parts[2].claims.sub # PyStr("") ->
                       Outcome(protected_secret, 1, 1)
                [] r = "ExpiredSignatureError" -> Outcome(ExpiredResponse, 0, 1)
                [] OTHER -> Outcome(InvalidTokenResponse, 0, 1)

\* jwt_required.decorated_function with the clock reading t; the outcome
\* records whether func and jwt.decode were called
decorated_function(auth_header, t) ==
    IF ~Truthy(auth_header) THEN Outcome(MissingHeaderResponse, 0, 0)
    ELSE LET parts == Split(auth_header) IN
         IF Len(parts) # 2 THEN Outcome(ValueErrorResponse, 0, 0)
         ELSE IF Lower(parts[1]) # "bearer" THEN Outcome(WrongSchemeResponse, 0, 0)
         ELSE LET r == jwt_decode(parts[2], JWT_SECRET_KEY, t) IN
              CASE r = "ok" -> Outcome(protected_secret, 1, 1)
                [] r = "ExpiredSignatureError" -> Outcome(ExpiredResponse, 0, 1)
                [] OTHER -> Outcome(InvalidTokenResponse, 0, 1)

\* variant: the decoded subject is handed to func
func_args_withsub(payload) == payload.sub

\* the identity that func(*args, **kwargs) receives from the guard: the
\* route's own arguments only, the decoded payload is not among them
func_args(payload) == PyNone

\* the JWT application after import and create_app(), no request served
InitJwt ==
    /\ JWT_SECRET_KEY = "clave_secreta_jwt_para_firmar_tokens"
    /\ USER_CREDENTIALS = [u \in {PyStr("usuario_demo")} |-> PyStr("password123")]
    /\ now = 0
    /\ request = [op |-> "none", header |-> NoHeader, body |-> NoBody, at |-> 0]
    /\ response = ErrorResponse(0, "")
    /\ handlerCalls = 0
    /\ decodeCalls = 0
    /\ principal = PyNone
    /\ lookups = 0

\* variant: a served request rotates the signing key
GetSecret_rotating(h) ==
    LET out == decorated_function(h, now) IN
    /\ request' = [op |-> "secret", header |-> h, body |-> NoBody, at |-> now]
    /\ response' = out.response
    /\ handlerCalls' = out.handler
    /\ decodeCalls' = out.decode
    /\ principal' = IF out.handler = 1 THEN func_args(h.token.claims) ELSE PyNone
    /\ lookups' = 0
    /\ JWT_SECRET_KEY' = IF out.handler = 1 THEN "clave_rotada" ELSE JWT_SECRET_KEY
    /\ UNCHANGED <<USER_CREDENTIALS, now>>

\* GET /api/secret carrying the Authorization header h
GetSecret(h) ==
    LET out == decorated_function(h, now) IN
    /\ request' = [op |-> "secret", header |-> h, body |-> NoBody, at |-> now]
    /\ response' = out.response
    /\ handlerCalls' = out.handler
    /\ decodeCalls' = out.decode
    /\ principal' = IF out.handler = 1 THEN func_args(h.token.claims) ELSE PyNone
    /\ lookups' = 0
    /\ UNCHANGED <<JWT_SECRET_KEY, USER_CREDENTIALS, now>>

\* POST /api/auth/login rejected for missing fields
LoginBadRequest(data) ==
    /\ Falsy(data) \/ ~Contains(data, "username") \/ ~Contains(data, "password")
    /\ request' = [op |-> "login", header |-> NoHeader, body |-> data, at |-> now]
    /\ response' = BadRequest
    /\ handlerCalls' = 0
    /\ decodeCalls' = 0
    /\ principal' = PyNone
    /\ lookups' = 0
    /\ UNCHANGED <<JWT_SECRET_KEY, USER_CREDENTIALS, now>>

\* POST /api/auth/login with both names in data; data['username'] raises
\* TypeError unless data is an object; the clock is read at now (iat),
\* now + d1 (exp) and now + d1 + d2 (expires_at)
Login(data, d1, d2) ==
    /\ ~Falsy(data) /\ Contains(data, "username") /\ Contains(data, "password")
    /\ IF data.kind # "object"
       THEN /\ d1 = 0 /\ d2 = 0
            /\ response' = InternalServerError
            /\ lookups' = 0
            /\ UNCHANGED now
       ELSE LET username == data.fields["username"]
                password == data.fields["password"]
                token == generate_jwt_token(username, now, now + d1)
            IN /\ lookups' = 1
               /\ IF CredentialsOk(username, password)
                  THEN /\ now + d1 + d2 \in Instants
                       /\ now' = now + d1 + d2
                       /\ response' = LoginResponse(token, now + d1 + d2 + Period)
                  ELSE /\ d1 = 0 /\ d2 = 0
                       /\ response' = InvalidCredentials
                       /\ UNCHANGED now
    /\ request' = [op |-> "login", header |-> NoHeader, body |-> data, at |-> now]
    /\ handlerCalls' = 0
    /\ decodeCalls' = 0
    /\ principal' = PyNone
    /\ UNCHANGED <<JWT_SECRET_KEY, USER_CREDENTIALS>>

\* the wall clock moves on between requests
Advance(t) ==
    /\ t > now
    /\ now' = t
    /\ UNCHANGED <<JWT_SECRET_KEY, USER_CREDENTIALS, request, response,
                   handlerCalls, decodeCalls, principal, lookups>>

(***************************************************************************)
(* Issuing several tokens: the driver of the issuer keeps the tokens two   *)
(* successful logins returned, with the instant each login began.          *)
(***************************************************************************)
\* POST /api/auth/login by the stored user, the returned token kept
LoginKeep(data, d1, d2) ==
    /\ Len(held) < 2
    /\ Login(data, d1, d2)
    /\ held' = IF response'.status = 200
               THEN Append(held, [token |-> CHOOSE tk \in response'.token : TRUE,
                                  at |-> now])
               ELSE held

\* GET /api/secret with "Bearer <token>" for a kept token
PresentHeld(i) ==
    /\ i \in 1..Len(held)
    /\ GetSecret(HeaderOf("Bearer", held[i].token))
    /\ UNCHANGED held

\* the bodies that name the stored user
StoredUserBodies ==
    {b \in Bodies : b.kind = "object" /\ DOMAIN b.fields = {"username", "password"}
                    /\ b.fields["username"] = PyStr("usuario_demo")}

(***************************************************************************)
(* The MongoDB library database of src/3a/ej3a4.py: the collections        *)
(* autores and libros, whose documents carry an ObjectId in _id.           *)
(***************************************************************************)
\* most ObjectIds generated for books
MaxLibros == 2

\* bson.ObjectId: the n-th identifier generated by the driver
ObjectId(n) == [bson |-> "objectId", hex |-> n]

\* str(ObjectId): the 24-digit hexadecimal text of the identifier
ObjectIdStr(oid) == [bson |-> "string", hex |-> oid.hex]

PyInt(n) == [t |-> "int", v |-> n]

\* the authors inserted, and the titles and years of the books inserted
\* and of the updates asked for
Nombres == <<PyStr("Isabel Allende"), PyStr("Jorge Luis Borges")>>

Titulos == {PyStr("El Aleph"), PyStr("Titulo actualizado")}

Anios == {PyInt(1949), PyInt(2021)}

\* insert_many(docs): every document is given the next ObjectId
insert_many(coll, docs, inc) ==
    [coll |-> coll \cup {[docs[i] EXCEPT !._id = ObjectId(inc + i)] : i \in 1..Len(docs)},
     inserted_ids |-> [i \in 1..Len(docs) |-> ObjectId(inc + i)]]

\* the documents selected by the filter {"_id": id}: BSON equality, a string
\* never equals an ObjectId
Matching(coll, id) == {d \in coll : d._id = id}

\* {"$set": update_doc} applied to one document
SetFields(d, update_doc) ==
    [k \in DOMAIN d |-> IF k \in DOMAIN update_doc THEN update_doc[k] ELSE d[k]]

\* update_one({"_id": id}, {"$set": update_doc}): the first matching
\* document is rewritten; modified_count counts it only if it changed
update_one(coll, id, update_doc) ==
    IF Matching(coll, id) = {}
    THEN [coll |-> coll, matched_count |-> 0, modified_count |-> 0]
    ELSE LET d == CHOOSE x \in Matching(coll, id) : TRUE
             e == SetFields(d, update_doc)
         IN [coll |-> (coll \ {d}) \cup {e}, matched_count |-> 1,
             modified_count |-> IF e = d THEN 0 ELSE 1]

\* delete_one({"_id": id}): the first matching document is removed
delete_one(coll, id) ==
    IF Matching(coll, id) = {}
    THEN [coll |-> coll, deleted_count |-> 0]
    ELSE [coll |-> coll \ {CHOOSE x \in Matching(coll, id) : TRUE},
          deleted_count |-> 1]

\* the update document built by actualizar_libro from its optional arguments
UpdateDoc(nuevo_titulo, nuevo_anio) ==
    LET keys == (IF nuevo_titulo # PyNone THEN {"titulo"} ELSE {})
                \cup (IF nuevo_anio # PyNone THEN {"anio"} ELSE {})
    IN [k \in keys |-> IF k = "titulo" THEN nuevo_titulo ELSE nuevo_anio]

NoCall ==
    [op |-> "none", id_libro |-> ObjectId(0), nuevo_titulo |-> PyNone,
     nuevo_anio |-> PyNone, nombre_autor |-> PyNone, resultado |-> FALSE,
     lista |-> <<>>, antes |-> {}]

\* the database after crear_conexion(): both collections empty
InitMongo ==
    /\ autores = {}
    /\ libros = {}
    /\ oid_inc = 0
    /\ llamada = NoCall

\* two authors of one name
Homonimos == <<PyStr("Jorge Luis Borges"), PyStr("Jorge Luis Borges")>>

\* insertar_autores(db, [(nombre,), ...]) on the empty collection
insertar_autores(nombres) ==
    /\ autores = {}
    /\ LET docs == [i \in 1..Len(nombres) |-> [_id |-> ObjectId(0), nombre |-> nombres[i]]]
           r == insert_many(autores, docs, oid_inc)
       IN /\ autores' = r.coll
          /\ oid_inc' = oid_inc + Len(docs)
          /\ llamada' = [NoCall EXCEPT !.op = "insertar_autores"]
    /\ UNCHANGED libros

\* insertar_libros(db, [(titulo, anio, autor_id)])
insertar_libros(titulo, anio, autor_id) ==
    /\ autor_id \in {a._id : a \in autores}
    /\ oid_inc - Len(Nombres) < MaxLibros
    /\ LET docs == <<[_id |-> ObjectId(0), titulo |-> titulo, anio |-> anio,
                      autor_id |-> autor_id]>>
           r == insert_many(libros, docs, oid_inc)
       IN /\ libros' = r.coll
          /\ oid_inc' = oid_inc + Len(docs)
          /\ llamada' = [NoCall EXCEPT !.op = "insertar_libros", !.antes = libros]
    /\ UNCHANGED autores

\* actualizar_libro(db, id_libro, nuevo_titulo, nuevo_anio)
actualizar_libro(id_libro, nuevo_titulo, nuevo_anio) ==
    LET update_doc == UpdateDoc(nuevo_titulo, nuevo_anio)
        r == update_one(libros, id_libro, update_doc)
    IN /\ libros' = IF DOMAIN update_doc = {} THEN libros ELSE r.coll
       /\ llamada' = [NoCall EXCEPT
                         !.op = "actualizar_libro", !.id_libro = id_libro,
                         !.nuevo_titulo = nuevo_titulo, !.nuevo_anio = nuevo_anio,
                         !.resultado = IF DOMAIN update_doc = {} THEN TRUE
                                       ELSE r.modified_count > 0,
                         !.antes = libros]
       /\ UNCHANGED <<autores, oid_inc>>

\* eliminar_libro(db, id_libro)
eliminar_libro(id_libro) ==
    LET r == delete_one(libros, id_libro)
    IN /\ libros' = r.coll
       /\ llamada' = [NoCall EXCEPT !.op = "eliminar_libro", !.id_libro = id_libro,
                                    !.resultado = r.deleted_count > 0,
                                    !.antes = libros]
       /\ UNCHANGED <<autores, oid_inc>>

\* the documents of a collection in natural order, the order of insertion
RECURSIVE NaturalOrder(_)
NaturalOrder(coll) ==
    IF coll = {} THEN <<>>
    ELSE LET d == CHOOSE x \in coll : \A y \in coll : x._id.hex <= y._id.hex
         IN <<d>> \o NaturalOrder(coll \ {d})

\* find_one({"nombre": nombre}): the first matching document, or None
find_one(coll, nombre) ==
    LET found == SelectSeq(NaturalOrder(coll), LAMBDA a : a.nombre = nombre)
    IN IF found = <<>> THEN {} ELSE {found[1]}

\* buscar_libros_por_autor(db, nombre_autor)
buscar_libros_por_autor(nombre_autor) ==
    LET autor == find_one(autores, nombre_autor)
        found == IF autor = {} THEN <<>>
                 ELSE SelectSeq(NaturalOrder(libros),
                                LAMBDA l : \E a \in autor : l.autor_id = a._id)
    IN /\ llamada' = [NoCall EXCEPT
                         !.op = "buscar_libros_por_autor",
                         !.nombre_autor = nombre_autor,
                         !.lista = [i \in 1..Len(found) |->
                                       <<found[i].titulo, found[i].anio>>],
                         !.antes = libros]
       /\ UNCHANGED <<autores, libros, oid_inc>>

\* the identifiers handed to the calls: every ObjectId generated so far, as
\* the ObjectId itself or as its str() form
IdArgs ==
    {ObjectId(n) : n \in 1..oid_inc} \cup {ObjectIdStr(ObjectId(n)) : n \in 1..oid_inc}

(***************************************************************************)
(* The REST APIs of src/3b: the tables authors and books of the SQLAlchemy *)
(* models Author and Book on SQLite, and the request last served.  Both    *)
(* programs, ej3b2.py and ej3b3.py, declare the same two models.           *)
(***************************************************************************)
\* most rows of a table
MaxRows == 2

\* the rowid SQLite gives a new row of an INTEGER PRIMARY KEY table: one
\* more than the largest rowid in the table
NextRowid(rows) ==
    IF rows = {} THEN 1
    ELSE 1 + CHOOSE m \in {r.id : r \in rows} : \A r \in rows : r.id <= m

\* Model.query.get(ident): the row with that primary key, if any
QueryGet(rows, ident) == {r \in rows : PyInt(r.id) = ident}

\* the JSON values posted for each field
FieldValues(k) ==
    CASE k = "name" -> {PyStr("Jorge Luis Borges"), PyInt(7), PyNone}
      [] k = "title" -> {PyStr("El Aleph"), PyNone}
      [] k = "author_id" -> {PyInt(n) : n \in 1..(MaxRows + 1)} \cup {PyStr("uno")}
      [] k = "year" -> {PyInt(1949), PyNone}

\* the JSON objects over the given keys, and the JSON null
ObjectsOver(keys) ==
    {JsonObject(f) :
        f \in {g \in UNION {[K -> UNION {FieldValues(k) : k \in keys}] :
                               K \in SUBSET keys} :
                  \A k \in DOMAIN g : g[k] \in FieldValues(k)}}

AuthorBodies == ObjectsOver({"name"}) \cup {NoBody}

BookBodies == ObjectsOver({"title", "author_id", "year"}) \cup {NoBody}

\* dict.get(key) on the posted object
DataGet(data, key) == IF key \in DOMAIN data.fields THEN data.fields[key] ELSE PyNone

\* the request served and its answer, with the tables as they were before
Served(method, route, id, data, status, payload) ==
    [method |-> method, route |-> route, id |-> id, data |-> data,
     status |-> status, payload |-> payload,
     authors0 |-> authors, books0 |-> books]

\* the tables after db.create_all(), no request served
InitRest ==
    /\ authors = {}
    /\ books = {}
    /\ http = [method |-> "", route |-> "", id |-> 0, data |-> NoBody,
               status |-> 0, payload |-> {}, authors0 |-> {}, books0 |-> {}]

(***************************************************************************)
(* ej3b3.py: POST /authors and POST /books behind JSON schema validation.  *)
(***************************************************************************)
\* validate(data, author_schema.json): an object with a string "name"
AuthorSchemaValid(data) ==
    /\ data.kind = "object"
    /\ "name" \in DOMAIN data.fields
    /\ data.fields["name"].t = "str"

\* validate(data, book_schema.json): an object with a string "title", an
\* integer "author_id" and, if present, an integer "year"
BookSchemaValid(data) ==
    /\ data.kind = "object"
    /\ {"title", "author_id"} \subseteq DOMAIN data.fields
    /\ data.fields["title"].t = "str"
    /\ data.fields["author_id"].t = "int"
    /\ "year" \in DOMAIN data.fields => data.fields["year"].t = "int"

\* ej3b3 POST /authors
ej3b3_add_author(data) ==
    IF ~AuthorSchemaValid(data)
    THEN /\ http' = Served("POST", "/authors", 0, data, 400, {})
         /\ UNCHANGED <<authors, books>>
    ELSE LET new_author == [id |-> NextRowid(authors), name |-> data.fields["name"]]
         IN /\ Cardinality(authors) < MaxRows
            /\ authors' = authors \cup {new_author}
            /\ http' = Served("POST", "/authors", 0, data, 201, {new_author})
            /\ UNCHANGED books

\* variant: the book is stored without looking the author up
ej3b3_add_book_nolookup(data) ==
    IF ~BookSchemaValid(data)
    THEN /\ http' = Served("POST", "/books", 0, data, 400, {})
         /\ UNCHANGED <<authors, books>>
    ELSE LET new_book == [id |-> NextRowid(books), title |-> data.fields["title"],
                          year |-> DataGet(data, "year"),
                          author_id |-> data.fields["author_id"].v]
         IN /\ Cardinality(books) < MaxRows
            /\ books' = books \cup {new_book}
            /\ http' = Served("POST", "/books", 0, data, 201, {new_book})
            /\ UNCHANGED authors

\* variant: the author is looked up before the body is validated
ej3b3_add_book_lookupfirst(data) ==
    IF data.kind = "object" /\ "author_id" \in DOMAIN data.fields
       /\ QueryGet(authors, data.fields["author_id"]) = {}
    THEN /\ http' = Served("POST", "/books", 0, data, 404, {})
         /\ UNCHANGED <<authors, books>>
    ELSE IF ~BookSchemaValid(data)
    THEN /\ http' = Served("POST", "/books", 0, data, 400, {})
         /\ UNCHANGED <<authors, books>>
    ELSE LET new_book == [id |-> NextRowid(books), title |-> data.fields["title"],
                          year |-> DataGet(data, "year"),
                          author_id |-> data.fields["author_id"].v]
         IN /\ Cardinality(books) < MaxRows
            /\ books' = books \cup {new_book}
            /\ http' = Served("POST", "/books", 0, data, 201, {new_book})
            /\ UNCHANGED authors

\* ej3b3 POST /books
ej3b3_add_book(data) ==
    IF ~BookSchemaValid(data)
    THEN /\ http' = Served("POST", "/books", 0, data, 400, {})
         /\ UNCHANGED <<authors, books>>
    ELSE IF QueryGet(authors, data.fields["author_id"]) = {}
    THEN /\ http' = Served("POST", "/books", 0, data, 404, {})
         /\ UNCHANGED <<authors, books>>
    ELSE LET new_book == [id |-> NextRowid(books), title |-> data.fields["title"],
                          year |-> DataGet(data, "year"),
                          author_id |-> data.fields["author_id"].v]
         IN /\ Cardinality(books) < MaxRows
            /\ books' = books \cup {new_book}
            /\ http' = Served("POST", "/books", 0, data, 201, {new_book})
            /\ UNCHANGED authors

(***************************************************************************)
(* ej3b2.py: the REST API without schema validation.  SQLite does not      *)
(* enforce the foreign key of books.author_id (no PRAGMA foreign_keys);    *)
(* a NOT NULL violation raises IntegrityError at commit, which Flask       *)
(* answers with 500 after the session is rolled back.                      *)
(***************************************************************************)
\* the bodies posted to ej3b2 for a book: author_id, if present, an integer
RestBookBodies ==
    {b \in BookBodies :
        "author_id" \in DOMAIN b.fields =>
            b.fields["author_id"] \in {PyInt(n) : n \in 1..MaxRows}}

\* the bodies put to ej3b2 for a book: update_book reads title and year only
RestPutBodies == {b \in RestBookBodies : "author_id" \notin DOMAIN b.fields}

\* the bodies posted to ej3b2 for an author: name, if present, a string or null
RestAuthorBodies ==
    {b \in AuthorBodies :
        "name" \in DOMAIN b.fields => b.fields["name"].t # "int"}

BookIds == 1..(MaxRows + 1)

\* the request answered: its method, route and <book_id>, and the response
Answered(method, route, id, status, payload) ==
    [method |-> method, route |-> route, id |-> id,
     status |-> status, payload |-> payload]

\* ej3b2 POST /authors
ej3b2_add_author(data) ==
    IF Falsy(data) \/ ~Contains(data, "name")
    THEN /\ http' = Answered("POST", "/authors", 0, 400, {})
         /\ UNCHANGED <<authors, books>>
    ELSE IF data.fields["name"] = PyNone
    THEN /\ http' = Answered("POST", "/authors", 0, 500, {})
         /\ UNCHANGED <<authors, books>>
    ELSE LET new_author == [id |-> NextRowid(authors), name |-> data.fields["name"]]
         IN /\ Cardinality(authors) < MaxRows
            /\ authors' = authors \cup {new_author}
            /\ http' = Answered("POST", "/authors", 0, 201, {new_author})
            /\ UNCHANGED books

\* ej3b2 POST /books
ej3b2_add_book(data) ==
    IF Falsy(data) \/ ~Contains(data, "title") \/ ~Contains(data, "author_id")
    THEN /\ http' = Answered("POST", "/books", 0, 400, {})
         /\ UNCHANGED <<authors, books>>
    ELSE IF data.fields["title"] = PyNone
    THEN /\ http' = Answered("POST", "/books", 0, 500, {})
         /\ UNCHANGED <<authors, books>>
    ELSE LET new_book == [id |-> NextRowid(books), title |-> data.fields["title"],
                          year |-> DataGet(data, "year"),
                          author_id |-> data.fields["author_id"].v]
         IN /\ Cardinality(books) < MaxRows /\ new_book.id \in BookIds
            /\ books' = books \cup {new_book}
            /\ http' = Answered("POST", "/books", 0, 201, {new_book})
            /\ UNCHANGED authors

\* ej3b2 GET /books/<book_id>
ej3b2_get_book(book_id) ==
    LET book == QueryGet(books, PyInt(book_id))
    IN /\ http' = Answered("GET", "/books/<id>", book_id,
                         IF book = {} THEN 404 ELSE 200, book)
       /\ UNCHANGED <<authors, books>>

\* variant: the books of the same author are deleted with the book
ej3b2_delete_book_cascade(book_id) ==
    LET book == QueryGet(books, PyInt(book_id))
    IN IF book = {}
       THEN /\ http' = Answered("DELETE", "/books/<id>", book_id, 404, {})
            /\ UNCHANGED <<authors, books>>
       ELSE /\ books' = {b \in books : \A d \in book : b.author_id # d.author_id}
            /\ http' = Answered("DELETE", "/books/<id>", book_id, 204, {})
            /\ UNCHANGED authors

\* ej3b2 DELETE /books/<book_id>
ej3b2_delete_book(book_id) ==
    LET book == QueryGet(books, PyInt(book_id))
    IN IF book = {}
       THEN /\ http' = Answered("DELETE", "/books/<id>", book_id, 404, {})
            /\ UNCHANGED <<authors, books>>
       ELSE /\ books' = books \ book
            /\ http' = Answered("DELETE", "/books/<id>", book_id, 204, {})
            /\ UNCHANGED authors

\* ej3b2 PUT /books/<book_id>; 'title' in data raises TypeError on a null
\* body, a null title violates NOT NULL at commit
ej3b2_update_book(book_id, data) ==
    LET book == QueryGet(books, PyInt(book_id))
    IN IF book = {}
       THEN /\ http' = Answered("PUT", "/books/<id>", book_id, 404, {})
            /\ UNCHANGED <<authors, books>>
       ELSE IF data.kind # "object" \/ (Contains(data, "title") /\ data.fields["title"] = PyNone)
       THEN /\ http' = Answered("PUT", "/books/<id>", book_id, 500, {})
            /\ UNCHANGED <<authors, books>>
       ELSE LET updated ==
                    {[b EXCEPT !.title = IF Contains(data, "title")
                                         THEN data.fields["title"] ELSE @,
                               !.year = IF Contains(data, "year")
                                        THEN data.fields["year"] ELSE @] : b \in book}
            IN /\ books' = (books \ book) \cup updated
               /\ http' = Answered("PUT", "/books/<id>", book_id, 200, updated)
               /\ UNCHANGED authors

(***************************************************************************)
(* ej3a1.py: the library database in SQLite, used through one connection   *)
(* of the sqlite3 module.  tablas holds the committed contents,            *)
(* transaccion the open transaction of the connection and the contents it  *)
(* works on, consulta the last call with what it printed.  The connection  *)
(* opens a transaction implicitly before an INSERT, UPDATE or DELETE       *)
(* executed outside one, and a statement that fails leaves it open.        *)
(* AUTOINCREMENT hands out the highest id ever used plus one; the counter  *)
(* is rolled back with the transaction.                                    *)
(***************************************************************************)
\* highest id AUTOINCREMENT hands out
MaxSeq == 2

\* the tables as crear_tablas leaves them
crear_tablas == [autores |-> {}, libros |-> {}, seq_autores |-> 0, seq_libros |-> 0]

Cerrada == [abierta |-> FALSE, vista |-> crear_tablas]

\* the contents the connection reads and writes
Vista == IF transaccion.abierta THEN transaccion.vista ELSE tablas

Contenido(db) == [autores |-> db.autores, libros |-> db.libros]

NoConsulta == [op |-> "", error |-> "", lineas |-> <<>>, antes |-> Contenido(crear_tablas)]

Llamada(op, error, lineas) ==
    [op |-> op, error |-> error, lineas |-> lineas, antes |-> Contenido(Vista)]

InitSql == tablas = crear_tablas /\ transaccion = Cerrada /\ consulta = NoConsulta

\* INSERT INTO autores (nombre) VALUES (?)
insert_autor(db, nombre) ==
    IF nombre = PyNone
    THEN [error |-> "IntegrityError", db |-> db]
    ELSE [error |-> "",
          db |-> [db EXCEPT !.autores = @ \cup {[id |-> db.seq_autores + 1,
                                                 nombre |-> nombre]},
                            !.seq_autores = @ + 1]]

\* INSERT INTO libros (titulo, anio, autor_id) VALUES (?, ?, ?); the foreign
\* key is declared and not enforced
insert_libro(db, libro) ==
    IF libro[1] = PyNone
    THEN [error |-> "IntegrityError", db |-> db]
    ELSE [error |-> "",
          db |-> [db EXCEPT !.libros = @ \cup {[id |-> db.seq_libros + 1,
                                                titulo |-> libro[1], anio |-> libro[2],
                                                autor_id |-> libro[3]]},
                            !.seq_libros = @ + 1]]

\* cursor.executemany: one INSERT per tuple, stopping at the first that fails
RECURSIVE executemany(_, _, _)
executemany(db, tabla, filas) ==
    IF filas = <<>>
    THEN [error |-> "", db |-> db]
    ELSE LET r == IF tabla = "autores"
                  THEN insert_autor(db, filas[1][1])
                  ELSE insert_libro(db, filas[1])
         IN IF r.error # "" THEN r ELSE executemany(r.db, tabla, Tail(filas))

\* the lists of tuples passed to insertar_autores and insertar_libros
ListasAutores ==
    {<< <<PyStr("Jorge Luis Borges")>> >>,
     << <<PyStr("Jorge Luis Borges")>>, <<PyNone>> >>,
     << <<PyNone>> >>}

ListasLibros ==
    {<< <<PyStr("El Aleph"), PyInt(1949), a>> >> : a \in {PyInt(1), PyInt(9), PyNone}}
        \cup {<< <<PyStr("El Aleph"), PyInt(1949), PyInt(1)>>,
                 <<PyNone, PyInt(1949), PyInt(1)>> >>}

IdsLibro == 1..MaxSeq

\* executemany followed by commit; an exception of executemany leaves the
\* function before the commit
insertar_en(tabla, filas) ==
    LET r == executemany(Vista, tabla, filas)
    IN /\ r.db.seq_autores <= MaxSeq /\ r.db.seq_libros <= MaxSeq
       /\ IF r.error = ""
          THEN tablas' = r.db /\ transaccion' = Cerrada
          ELSE transaccion' = [abierta |-> TRUE, vista |-> r.db] /\ UNCHANGED tablas
       /\ consulta' = Llamada("insertar_" \o tabla, r.error, <<>>)

ej3a1_insertar_autores(autores_) == insertar_en("autores", autores_)

ej3a1_insertar_libros(libros_) == insertar_en("libros", libros_)

\* the rows of libros joined with autores, in the order of libros.id
RECURSIVE JoinAutores(_, _)
JoinAutores(db, pendientes) ==
    IF pendientes = {}
    THEN <<>>
    ELSE LET l == CHOOSE x \in pendientes : \A y \in pendientes : x.id <= y.id
             autor == {a \in db.autores : PyInt(a.id) = l.autor_id}
         IN (IF autor = {}
             THEN <<>>
             ELSE << [titulo |-> l.titulo, anio |-> l.anio,
                      autor |-> (CHOOSE a \in autor : TRUE).nombre] >>)
            \o JoinAutores(db, pendientes \ {l})

ej3a1_consultar_libros ==
    /\ consulta' = Llamada("consultar_libros", "", JoinAutores(Vista, Vista.libros))
    /\ UNCHANGED <<tablas, transaccion>>

ej3a1_actualizar_libro(id_libro, nuevo_titulo, nuevo_anio) ==
    /\ consulta' = Llamada("actualizar_libro", "", <<>>)
    /\ IF nuevo_titulo = PyNone /\ nuevo_anio = PyNone
       THEN UNCHANGED <<tablas, transaccion>>
       ELSE /\ tablas' =
                [Vista EXCEPT !.libros =
                    {IF l.id = id_libro
                     THEN [l EXCEPT !.titulo = IF nuevo_titulo = PyNone THEN @ ELSE nuevo_titulo,
                                    !.anio = IF nuevo_anio = PyNone THEN @ ELSE nuevo_anio]
                     ELSE l : l \in @}]
            /\ transaccion' = Cerrada

ej3a1_eliminar_libro(id_libro) ==
    /\ consulta' = Llamada("eliminar_libro", "", <<>>)
    /\ tablas' = [Vista EXCEPT !.libros = {l \in @ : l.id # id_libro}]
    /\ transaccion' = Cerrada

\* BEGIN inside an open transaction raises OperationalError, and the except
\* clause rolls the open transaction back
ejemplo_transaccion ==
    IF transaccion.abierta
    THEN /\ consulta' = Llamada("ejemplo_transaccion", "OperationalError", <<>>)
         /\ transaccion' = Cerrada
         /\ UNCHANGED tablas
    ELSE LET a == insert_autor(tablas, PyStr("Nuevo Autor"))
             l == insert_libro(a.db, <<PyStr("Nuevo Libro"), PyInt(2025),
                                       PyInt(a.db.seq_autores)>>)
         IN /\ l.db.seq_autores <= MaxSeq /\ l.db.seq_libros <= MaxSeq
            /\ consulta' = Llamada("ejemplo_transaccion", "", <<>>)
            /\ tablas' = l.db
            /\ transaccion' = Cerrada

(***************************************************************************)
(* jwt_required around any handler: func either returns a response or      *)
(* raises an exception.  The call of func is made inside the try of       *)
(* decorated_function, so its exceptions meet the same except clauses as   *)
(* those of split and jwt.decode.                                          *)
(***************************************************************************)
Returns(resp) == [kind |-> "returns", response |-> resp, exc |-> ""]

Raises(e) == [kind |-> "raises", response |-> ErrorResponse(0, ""), exc |-> e]

\* the handlers wrapped: protected_secret and handlers that raise
Handlers ==
    {Returns(protected_secret)}
    \cup {Raises(e) : e \in {"ValueError", "ExpiredSignatureError",
                             "InvalidTokenError", "KeyError"}}

\* the except clauses of decorated_function, in their order
except_clauses(e) ==
    CASE e = "ExpiredSignatureError" -> Returns(ExpiredResponse)
      [] e = "InvalidTokenError" -> Returns(InvalidTokenResponse)
      [] e = "ValueError" -> Returns(ValueErrorResponse)
      [] OTHER -> Raises(e)

\* what leaves jwt_required(func) for a request with the header auth_header
jwt_required(func, auth_header, t) ==
    LET out == decorated_function(auth_header, t)
    IN IF out.handler = 0 THEN Returns(out.response)
       ELSE IF func.kind = "returns" THEN func
       ELSE except_clauses(func.exc)

NoWrapped ==
    [func |-> Returns(ErrorResponse(0, "")), header |-> NoHeader, at |-> 0,
     ran |-> FALSE, result |-> Returns(ErrorResponse(0, ""))]

\* the headers of the requests to the wrapped routes: none, the stored user's
\* tokens and a corrupt one
WrappedHeaders ==
    {NoHeader}
    \cup {HeaderOf("Bearer", tk) :
              tk \in IssuableTo(PyStr("usuario_demo"), now) \cup {GarbageToken}}

\* a request to a route whose handler func is wrapped by jwt_required
CallWrapped(func, h) ==
    wrapped' = [func |-> func, header |-> h, at |-> now,
                ran |-> decorated_function(h, now).handler = 1,
                result |-> jwt_required(func, h, now)]

(***************************************************************************)
(* The specifications.                                                     *)
(***************************************************************************)
Init == InitJwt /\ held = <<>> /\ InitMongo /\ InitRest /\ InitSql /\ wrapped = NoWrapped

\* the JWT application serving requests
Next ==
    \/ \E h \in Headers : GetSecret(h) /\ UNCHANGED <<held, outsideJwt>>
    \/ \E data \in Bodies : LoginBadRequest(data) /\ UNCHANGED <<held, outsideJwt>>
    \/ \E data \in Bodies, d1 \in 0..MaxLatency, d2 \in 0..MaxLatency :
           Login(data, d1, d2) /\ UNCHANGED <<held, outsideJwt>>
    \/ \E t \in Instants : Advance(t) /\ UNCHANGED <<held, outsideJwt>>

Spec == Init /\ [][Next]_vars

\* the stored user logs in twice and presents the tokens it was given
NextIssue ==
    \/ \E data \in StoredUserBodies, d1 \in 0..MaxLatency, d2 \in 0..MaxLatency :
           LoginKeep(data, d1, d2) /\ UNCHANGED outsideJwt
    \/ \E i \in 1..2 : PresentHeld(i) /\ UNCHANGED outsideJwt
    \/ \E t \in Instants : Advance(t) /\ UNCHANGED <<held, outsideJwt>>

SpecIssue == Init /\ [][NextIssue]_vars

\* calls on the library database
NextMongo ==
    \/ \E nombres \in {Nombres, Homonimos} :
           insertar_autores(nombres) /\ UNCHANGED outsideMongo
    \/ \E titulo \in Titulos, anio \in Anios, autor_id \in {ObjectId(1), ObjectId(2)} :
           insertar_libros(titulo, anio, autor_id) /\ UNCHANGED outsideMongo
    \/ \E nombre_autor \in {Nombres[1], Nombres[2], PyStr("Nadie")} :
           buscar_libros_por_autor(nombre_autor) /\ UNCHANGED outsideMongo
    \/ \E id_libro \in IdArgs, nuevo_titulo \in Titulos \cup {PyNone},
          nuevo_anio \in Anios \cup {PyNone} :
           actualizar_libro(id_libro, nuevo_titulo, nuevo_anio)
           /\ UNCHANGED outsideMongo
    \/ \E id_libro \in IdArgs : eliminar_libro(id_libro) /\ UNCHANGED outsideMongo

SpecMongo == Init /\ [][NextMongo]_vars

\* ej3b3.py serving requests
NextSchema ==
    \/ \E data \in AuthorBodies : ej3b3_add_author(data) /\ UNCHANGED outsideRest
    \/ \E data \in BookBodies : ej3b3_add_book(data) /\ UNCHANGED outsideRest

SpecSchema == Init /\ [][NextSchema]_vars

\* ej3b2.py serving requests
NextRest ==
    \/ \E data \in RestAuthorBodies : ej3b2_add_author(data) /\ UNCHANGED outsideRest
    \/ \E data \in RestBookBodies : ej3b2_add_book(data) /\ UNCHANGED outsideRest
    \/ \E book_id \in BookIds : ej3b2_get_book(book_id) /\ UNCHANGED outsideRest
    \/ \E book_id \in BookIds : ej3b2_delete_book(book_id) /\ UNCHANGED outsideRest
    \/ \E book_id \in BookIds, data \in RestPutBodies :
           ej3b2_update_book(book_id, data) /\ UNCHANGED outsideRest

SpecRest == Init /\ [][NextRest]_vars

\* ej3a1.py: calls on one connection after crear_tablas
NextSql ==
    \/ \E autores_ \in ListasAutores : ej3a1_insertar_autores(autores_) /\ UNCHANGED outsideSql
    \/ \E libros_ \in ListasLibros : ej3a1_insertar_libros(libros_) /\ UNCHANGED outsideSql
    \/ ej3a1_consultar_libros /\ UNCHANGED outsideSql
    \/ \E id_libro \in IdsLibro, nuevo_titulo \in {PyNone, PyStr("Titulo actualizado")},
          nuevo_anio \in {PyNone, PyInt(2021)} :
           ej3a1_actualizar_libro(id_libro, nuevo_titulo, nuevo_anio) /\ UNCHANGED outsideSql
    \/ \E id_libro \in IdsLibro : ej3a1_eliminar_libro(id_libro) /\ UNCHANGED outsideSql
    \/ ejemplo_transaccion /\ UNCHANGED outsideSql

SpecSql == Init /\ [][NextSql]_vars

\* requests to routes wrapped by jwt_required, as time passes
NextWrap ==
    \/ \E func \in Handlers, h \in WrappedHeaders :
           CallWrapped(func, h) /\ UNCHANGED <<jwtVars, held, mongoVars, restVars, sqlVars>>
    \/ \E t \in Instants : Advance(t) /\ UNCHANGED <<held, outsideJwt>>

SpecWrap == Init /\ [][NextWrap]_vars

(***************************************************************************)
(* Vocabulary of the properties, stated on the last request served.        *)
(***************************************************************************)
IsSecretRequest == request.op = "secret"

IsLoginRequest == request.op = "login"

ReqToken == request.header.token

BearerWords == {"Bearer", "bearer", "BEARER"}

\* the header has the form "<scheme> <token>" with a Bearer scheme
BearerForm == request.header.present /\ request.header.space
              /\ request.header.scheme \in BearerWords

\* the token has three segments, names HS256, and its signature segment
\* carries the HMAC of its own header and claims under the secret
SignatureVerifies(tk) ==
    /\ tk.segments = 3
    /\ tk.alg = "HS256"
    /\ tk.sig = [key |-> JWT_SECRET_KEY,
                 msg |-> [alg |-> tk.alg, claims |-> tk.claims],
                 flip |-> 0]

ExpiryReached(tk, t) == t >= tk.claims.exp * TicksPerSec

Rejected401 == response.status = 401 /\ handlerCalls = 0

HandlerRan == handlerCalls = 1 /\ response = SecretResponse

(***************************************************************************)
(* C1: a token produced by generate_jwt_token for a non-empty subject and  *)
(* presented as "Bearer <token>" before its expiry is accepted: the        *)
(* protected handler runs and no 401 is returned.                          *)
(***************************************************************************)
IssuedPresentedInTime ==
    /\ IsSecretRequest
    /\ request.header.present /\ request.header.space
    /\ request.header.scheme = "Bearer"
    /\ ReqToken \in Issuable(request.at)
    /\ ReqToken.claims.sub # PyStr("")
    /\ ~ExpiryReached(ReqToken, request.at)

C1_IssuedTokenAccepted ==
    IssuedPresentedInTime => handlerCalls = 1 /\ response.status # 401

C1_Witness == IssuedPresentedInTime /\ HandlerRan

(***************************************************************************)
(* C2: the wrapped handler is invoked, at most once, only for a request    *)
(* whose header has a Bearer scheme and whose token's HS256 signature      *)
(* verifies under JWT_SECRET_KEY and is not expired; every other request   *)
(* to the guarded route never reaches the handler and is answered 401.     *)
(***************************************************************************)
Admissible ==
    /\ BearerForm
    /\ SignatureVerifies(ReqToken)
    /\ ~ExpiryReached(ReqToken, request.at)

C2_HandlerOnlyIfAdmissible ==
    IsSecretRequest =>
        /\ handlerCalls \in {0, 1}
        /\ handlerCalls = 1 => Admissible
        /\ ~Admissible => Rejected401

C2_Witness ==
    /\ IsSecretRequest /\ BearerForm /\ ~SignatureVerifies(ReqToken)
    /\ ReqToken.segments = 3 /\ ReqToken.alg = "HS256"
    /\ ~ExpiryReached(ReqToken, request.at)
    /\ Rejected401

(***************************************************************************)
(* C3: a token with expiry E is accepted at every time now <= E - 1s and   *)
(* rejected as expired at every time now >= E; in particular a token       *)
(* issued with lifetime L is accepted at iat + L - 1s and rejected as      *)
(* expired at exactly iat + L.                                             *)
(***************************************************************************)
IssuedPresented ==
    /\ IsSecretRequest
    /\ request.header.present /\ request.header.space
    /\ request.header.scheme = "Bearer"
    /\ ReqToken \in Issuable(request.at)
    /\ ReqToken.claims.sub = PyStr("usuario_demo")

C3_ExpiryBoundary ==
    IssuedPresented =>
        LET E == ReqToken.claims.exp * TicksPerSec
            issuedAt == ReqToken.claims.iat * TicksPerSec
        IN /\ request.at <= E - TicksPerSec => HandlerRan
           /\ request.at >= E => response = ExpiredResponse /\ handlerCalls = 0
           /\ request.at = issuedAt + Period - TicksPerSec => HandlerRan
           /\ request.at = issuedAt + Period =>
                  response = ExpiredResponse /\ handlerCalls = 0

(***************************************************************************)
(* C4: a token obtained from an issued token by modifying its encoded      *)
(* claims or its signature portion, or a structurally corrupt token, is    *)
(* rejected with the invalid-token response and the handler is not run.    *)
(***************************************************************************)
ModifiedPresented ==
    /\ IsSecretRequest
    /\ request.header.present /\ request.header.space
    /\ request.header.scheme = "Bearer"
    /\ \/ \E tk \in Issuable(request.at) :
              /\ tk.claims.sub = PyStr("usuario_demo")
              /\ ReqToken \in Tampered(tk) \ Issuable(request.at)
       \/ ReqToken = GarbageToken

C4_ModifiedTokenRejected ==
    ModifiedPresented => response = InvalidTokenResponse /\ handlerCalls = 0

(***************************************************************************)
(* C5: a token whose signature does not verify under the secret is never   *)
(* rejected as expired: whatever its exp claim, the guard answers with the *)
(* one invalid-token response, so two forged tokens that differ only in    *)
(* exp get the same response.                                              *)
(***************************************************************************)
ForgedPresented ==
    /\ IsSecretRequest /\ BearerForm
    /\ ReqToken.segments = 3
    /\ ~SignatureVerifies(ReqToken)

C5_ForgedNeverExpired ==
    ForgedPresented =>
        /\ response # ExpiredResponse
        /\ response = InvalidTokenResponse
        /\ handlerCalls = 0

C5_Witness ==
    /\ ForgedPresented
    /\ ReqToken \in Forged
    /\ ExpiryReached(ReqToken, request.at)
    /\ response = InvalidTokenResponse

(***************************************************************************)
(* C6: login returns a token only when the username is an entry of the     *)
(* credential store and the password equals the stored one; every other    *)
(* pair with both fields present gets the invalid-credentials 401 and no   *)
(* token.                                                                  *)
(***************************************************************************)
BothFieldsPresent ==
    /\ IsLoginRequest /\ request.body.json
    /\ {"username", "password"} \subseteq DOMAIN request.body.fields

C6_TokenOnlyForStoredCredentials ==
    BothFieldsPresent =>
        LET u == request.body.fields["username"]
            p == request.body.fields["password"]
        IN IF u \in DOMAIN USER_CREDENTIALS /\ USER_CREDENTIALS[u] = p
           THEN response.status = 200 /\ response.token # {}
           ELSE response = InvalidCredentials /\ response.token = {}

(***************************************************************************)
(* C7: when the Authorization header is absent or the empty string the     *)
(* guard answers 401 with the missing-credentials response and the handler *)
(* is not invoked.                                                         *)
(***************************************************************************)
HeaderMissing ==
    /\ IsSecretRequest
    /\ \/ ~request.header.present
       \/ request.header.scheme = "" /\ ~request.header.space

C7_MissingHeaderRejected ==
    HeaderMissing =>
        /\ response = MissingHeaderResponse
        /\ response.status = 401
        /\ handlerCalls = 0

C7_Witness ==
    /\ IsSecretRequest
    /\ request.header = BareHeader("")
    /\ Rejected401

(***************************************************************************)
(* C8: a non-empty header that is not "<scheme> <token>" with a Bearer     *)
(* scheme and a non-empty token is rejected with a malformed-credentials   *)
(* reason that differs from the invalid-token reason, and the token is not *)
(* decoded.                                                                *)
(***************************************************************************)
MalformedHeader ==
    /\ IsSecretRequest
    /\ request.header.present
    /\ ~(request.header.scheme = "" /\ ~request.header.space)
    /\ \/ ~request.header.space
       \/ request.header.scheme \notin BearerWords
       \/ ReqToken = EmptyToken

EmptyBearerToken ==
    /\ request.header.space
    /\ request.header.scheme \in BearerWords
    /\ ReqToken = EmptyToken

InvalidTokenPresented ==
    /\ IsSecretRequest /\ BearerForm
    /\ ReqToken # EmptyToken
    /\ ~SignatureVerifies(ReqToken)

ExpiredTokenPresented ==
    /\ IsSecretRequest /\ BearerForm
    /\ SignatureVerifies(ReqToken)
    /\ ExpiryReached(ReqToken, request.at)

FailureKind ==
    CASE HeaderMissing -> "MissingCredentials"
      [] MalformedHeader -> "MalformedCredentials"
      [] InvalidTokenPresented -> "InvalidToken"
      [] ExpiredTokenPresented -> "ExpiredToken"
      [] OTHER -> "none"

\* the reasons each failure kind is answered with
KindReasons(kind) ==
    CASE kind = "MissingCredentials" -> {MissingHeaderResponse.error}
      [] kind = "MalformedCredentials" ->
             {WrongSchemeResponse.error, ValueErrorResponse.error}
      [] kind = "InvalidToken" -> {InvalidTokenResponse.error}
      [] kind = "ExpiredToken" -> {ExpiredResponse.error}
      [] OTHER -> {}

FailureKinds ==
    {"MissingCredentials", "MalformedCredentials", "InvalidToken", "ExpiredToken"}

C10_ExpIsIatPlusDelta ==
    IsLoginRequest =>
        \A tk \in {k \in response.token : k.claims.sub = PyStr("usuario_demo")} :
            /\ tk.claims.exp = tk.claims.iat + JWT_EXPIRATION_DELTA
            /\ tk.claims.exp > tk.claims.iat

(***************************************************************************)
(* C11: on a successful login the expires_at value of the response denotes *)
(* the same instant as the exp claim of the token returned in the same     *)
(* response.                                                               *)
(***************************************************************************)
LoginSucceeded ==
    /\ IsLoginRequest
    /\ response.status = 200
    /\ response.token # {}

C11_ExpiresAtIsExp ==
    LoginSucceeded =>
        \A tk \in response.token :
            tk.claims.sub = PyStr("usuario_demo") =>
                response.expires_at = tk.claims.exp * TicksPerSec

C13_BadLoginsIndistinguishable ==
    BothFieldsPresent =>
        LET u == request.body.fields["username"]
            p == request.body.fields["password"]
        IN /\ (u \in DOMAIN USER_CREDENTIALS /\ USER_CREDENTIALS[u] # p)
                  => response = InvalidCredentials
           /\ u \notin DOMAIN USER_CREDENTIALS
                  => response = InvalidCredentials

(***************************************************************************)
(* C14: two tokens issued by generate_jwt_token for the same subject at    *)
(* two different instants are distinct strings, and each is accepted by    *)
(* the guard at every time before its own expiry, whatever the other is.   *)
(***************************************************************************)
TwoHeld == Len(held) = 2

\* the last request presented the i-th kept token
Presented(i) ==
    /\ i \in 1..Len(held)
    /\ IsSecretRequest
    /\ request.header = HeaderOf("Bearer", held[i].token)

HeldAccepted ==
    \A i \in 1..Len(held) :
        (Presented(i) /\ ~ExpiryReached(held[i].token, request.at)) => HandlerRan

C14_DistinctAndIndependent ==
    /\ (TwoHeld /\ held[1].at # held[2].at) => held[1].token # held[2].token
    /\ HeldAccepted

\* C14 as the code has it: the token text is determined by sub and the
\* whole-second iat and exp, so two tokens of one subject are distinct when
\* they were issued in different clock seconds and the same string when
\* their clock readings fall in the same seconds.
C14_DistinctAcrossSeconds ==
    /\ TwoHeld =>
          /\ held[1].token.claims.sub = held[2].token.claims.sub
          /\ held[1].at \div TicksPerSec # held[2].at \div TicksPerSec
                => held[1].token # held[2].token
          /\ (/\ held[1].token.claims.iat = held[2].token.claims.iat
              /\ held[1].token.claims.exp = held[2].token.claims.exp)
                => held[1].token = held[2].token
    /\ HeldAccepted

C14_Witness ==
    /\ TwoHeld
    /\ held[1].token # held[2].token
    /\ Presented(2)
    /\ ExpiryReached(held[1].token, request.at)
    /\ HandlerRan

C14_WitnessSameString ==
    /\ TwoHeld
    /\ held[1].at # held[2].at
    /\ held[1].token = held[2].token

(***************************************************************************)
(* C15: the guard is stateless.  No login and no guarded request changes   *)
(* JWT_SECRET_KEY or USER_CREDENTIALS (JWT_EXPIRATION_DELTA is a fixed     *)
(* value), and the outcome of a guarded request is determined by its       *)
(* header and the time it is served at, whatever was served before: a      *)
(* token signed with the startup key is accepted as often as it is         *)
(* presented from its iat until its expiry.                                *)
(***************************************************************************)
\* the header carries a Bearer token that the startup key signed and that
\* is in its validity period at t
AcceptableAt(h, t) ==
    /\ h.present /\ h.space /\ h.scheme \in BearerWords
    /\ h.token.segments = 3 /\ h.token.alg = "HS256"
    /\ h.token.sig = [key |-> "clave_secreta_jwt_para_firmar_tokens",
                      msg |-> [alg |-> h.token.alg, claims |-> h.token.claims],
                      flip |-> 0]
    /\ h.token.claims.iat * TicksPerSec <= t
    /\ t < h.token.claims.exp * TicksPerSec

OutcomeByHeaderAndTime ==
    IsSecretRequest =>
        IF AcceptableAt(request.header, request.at)
        THEN HandlerRan
        ELSE Rejected401

FieldMissing ==
    /\ IsLoginRequest
    /\ \/ request.body.kind # "object"
       \/ "username" \notin DOMAIN request.body.fields
       \/ "password" \notin DOMAIN request.body.fields

C16_MissingFieldsBadRequest ==
    FieldMissing =>
        /\ response = BadRequest
        /\ response.token = {}
        /\ lookups = 0

(***************************************************************************)
(* C17: a correctly signed, unexpired token whose sub claim is the empty   *)
(* string is accepted by the guard: the handler is invoked.                *)
(***************************************************************************)
EmptySubjectPresented ==
    /\ IsSecretRequest /\ BearerForm
    /\ SignatureVerifies(ReqToken)
    /\ ReqToken.claims.sub = PyStr("")
    /\ ReqToken.claims.iat * TicksPerSec <= request.at
    /\ ~ExpiryReached(ReqToken, request.at)

C17_EmptySubjectAccepted ==
    EmptySubjectPresented => handlerCalls = 1 /\ response = SecretResponse

C17_Witness == EmptySubjectPresented /\ HandlerRan /\ decodeCalls = 1

(***************************************************************************)
(* C18: the scheme word is compared ignoring case: "Bearer t", "bearer t"  *)
(* and "BEARER t" are accepted for a valid token t, and a header with any  *)
(* other scheme word is rejected even when its token is valid.             *)
(***************************************************************************)
ValidTokenAfterScheme ==
    /\ IsSecretRequest
    /\ request.header.present /\ request.header.space
    /\ SignatureVerifies(ReqToken)
    /\ ReqToken.claims.iat * TicksPerSec <= request.at
    /\ ~ExpiryReached(ReqToken, request.at)

C18_SchemeCaseInsensitive ==
    ValidTokenAfterScheme =>
        IF request.header.scheme \in {"Bearer", "bearer", "BEARER"}
        THEN HandlerRan
        ELSE Rejected401 /\ decodeCalls = 0

C18_Witness ==
    /\ ValidTokenAfterScheme
    /\ request.header.scheme = "BEARER"
    /\ HandlerRan

C18_WitnessOtherScheme ==
    /\ ValidTokenAfterScheme
    /\ request.header.scheme = "Basic"
    /\ Rejected401

(***************************************************************************)
(* C19: actualizar_libro called with the id of an existing book given as   *)
(* str(book["_id"]) returns True and sets exactly the supplied fields      *)
(* (titulo and/or anio), leaving the unsupplied field and every other book *)
(* unchanged.  Stated for calls that supply a value the book does not hold *)
(* yet.                                                                    *)
(***************************************************************************)
\* the book of the collection before the call whose _id has the text given
\* to the call
Target == {d \in llamada.antes : ObjectIdStr(d._id) = llamada.id_libro}

\* what the call asks for, applied to the book d
Asked(d) ==
    [d EXCEPT !.titulo = IF llamada.nuevo_titulo # PyNone
                         THEN llamada.nuevo_titulo ELSE @,
              !.anio = IF llamada.nuevo_anio # PyNone
                       THEN llamada.nuevo_anio ELSE @]

UpdateByStrId ==
    /\ llamada.op = "actualizar_libro"
    /\ llamada.id_libro.bson = "string"
    /\ \E d \in Target : Asked(d) # d

C19_UpdateByStrIdSetsFields ==
    UpdateByStrId =>
        /\ llamada.resultado = TRUE
        /\ libros = (llamada.antes \ Target) \cup {Asked(d) : d \in Target}

(***************************************************************************)
(* C20: eliminar_libro called with the id of an existing book given as the *)
(* string form of its _id returns True; afterwards no book with that _id   *)
(* exists and the number of books is one less.                             *)
(***************************************************************************)
DeleteByStrId ==
    /\ llamada.op = "eliminar_libro"
    /\ llamada.id_libro.bson = "string"
    /\ Target # {}

C20_DeleteByStrIdRemovesBook ==
    DeleteByStrId =>
        /\ llamada.resultado = TRUE
        /\ \A d \in libros : ObjectIdStr(d._id) # llamada.id_libro
        /\ Cardinality(libros) = Cardinality(llamada.antes) - 1

(***************************************************************************)
(* C21: actualizar_libro returns True whenever a book with the given id    *)
(* exists, also when the supplied titulo/anio equal the stored values, and *)
(* False exactly when no book with that id exists.  Stated for ids given   *)
(* as the ObjectId itself and calls that supply at least one field.        *)
(***************************************************************************)
UpdateByObjectId ==
    /\ llamada.op = "actualizar_libro"
    /\ llamada.id_libro.bson = "objectId"
    /\ llamada.nuevo_titulo # PyNone \/ llamada.nuevo_anio # PyNone

C21_UpdateTrueIffBookExists ==
    UpdateByObjectId =>
        (llamada.resultado = TRUE <=> \E d \in llamada.antes : d._id = llamada.id_libro)

(***************************************************************************)
(* C22: buscar_libros_por_autor(db, name) returns the (titulo, anio) pair  *)
(* of every book whose author document has nombre = name and nothing else, *)
(* and the empty list when no author has that name; also when several      *)
(* author documents share the name.                                        *)
(***************************************************************************)
Searched == llamada.op = "buscar_libros_por_autor"

\* the books whose author document carries the name searched for
BooksOfName ==
    {l \in libros : \E a \in autores :
        a._id = l.autor_id /\ a.nombre = llamada.nombre_autor}

C22_SearchReturnsAllBooksOfName ==
    Searched =>
        /\ Len(llamada.lista) = Cardinality(BooksOfName)
        /\ {llamada.lista[i] : i \in 1..Len(llamada.lista)}
              = {<<l.titulo, l.anio>> : l \in BooksOfName}

(***************************************************************************)
(* C23: in ej3b3, POST /books with a schema-valid body whose author_id     *)
(* matches no stored author is answered 404 and creates no book; so after  *)
(* any sequence of POST /authors and POST /books every stored book's       *)
(* author_id is the id of a stored author.                                 *)
(***************************************************************************)
PostedBook == http.method = "POST" /\ http.route = "/books"

PostedAuthor == http.method = "POST" /\ http.route = "/authors"

UnknownAuthorPosted ==
    /\ PostedBook
    /\ BookSchemaValid(http.data)
    /\ \A a \in http.authors0 : PyInt(a.id) # http.data.fields["author_id"]

EveryBookHasAuthor == \A b \in books : \E a \in authors : a.id = b.author_id

C23_UnknownAuthorNotFound ==
    /\ UnknownAuthorPosted =>
          /\ http.status = 404
          /\ books = http.books0 /\ authors = http.authors0
    /\ EveryBookHasAuthor

C23_Witness ==
    /\ UnknownAuthorPosted
    /\ http.status = 404
    /\ authors # {} /\ books # {}

(***************************************************************************)
(* C24: in ej3b3, a POST /authors or POST /books body that fails schema    *)
(* validation is answered 400 and leaves authors and books unchanged; for  *)
(* POST /books the answer is 400, never 404, also when the author_id of    *)
(* the invalid body matches no author.                                     *)
(***************************************************************************)
SchemaInvalidPosted ==
    \/ PostedAuthor /\ ~AuthorSchemaValid(http.data)
    \/ PostedBook /\ ~BookSchemaValid(http.data)

C24_SchemaInvalidBadRequest ==
    SchemaInvalidPosted =>
        /\ http.status = 400
        /\ authors = http.authors0 /\ books = http.books0

C24_Witness ==
    /\ PostedBook /\ ~BookSchemaValid(http.data)
    /\ http.data.kind = "object"
    /\ "author_id" \in DOMAIN http.data.fields
    /\ http.data.fields["author_id"].t = "int"
    /\ \A a \in http.authors0 : PyInt(a.id) # http.data.fields["author_id"]
    /\ http.status = 400

(***************************************************************************)
(* C25: in ej3b2, DELETE /books/<book_id> for an existing book is answered *)
(* 204 and removes exactly that book, all other books and all authors      *)
(* staying as they were, and a GET /books/<book_id> that follows is        *)
(* answered 404; for a book_id no book has it is answered 404 and changes  *)
(* nothing.                                                                *)
(***************************************************************************)
Deleted == http.method = "DELETE"

DeleteRemovesExactlyTheBook ==
    Deleted' =>
        IF \E b \in books : b.id = http'.id
        THEN /\ http'.status = 204
             /\ books' = {b \in books : b.id # http'.id}
             /\ authors' = authors
        ELSE /\ http'.status = 404
             /\ books' = books /\ authors' = authors

GetAfterDeleteNotFound ==
    (/\ Deleted /\ http.status = 204
     /\ http'.method = "GET" /\ http'.id = http.id) => http'.status = 404

C25_DeleteBook ==
    [][DeleteRemovesExactlyTheBook /\ GetAfterDeleteNotFound]_vars

C25_Witness ==
    /\ Deleted /\ http.status = 204
    /\ QueryGet(books, PyInt(http.id)) = {}
    /\ Cardinality(books) = 1

(***************************************************************************)
(* C30: in ej3b2, after any sequence of POST /authors, POST /books,        *)
(* PUT /books/<id> and DELETE /books/<id>, every stored book's author_id   *)
(* is the id of a stored author.                                           *)
(***************************************************************************)
C30_EveryBookHasStoredAuthor ==
    \A b \in books : \E a \in authors : a.id = b.author_id

(***************************************************************************)
(* C26: ejemplo_transaccion is atomic: when it has returned, either the    *)
(* new author row and the new book row have both been added, or, when a    *)
(* sqlite3.Error occurred at any step, neither has and the contents of     *)
(* autores and libros are those of before the call.                        *)
(***************************************************************************)
C26_TransaccionAtomica ==
    consulta.op = "ejemplo_transaccion" =>
        IF consulta.error = ""
        THEN \E a \in Vista.autores, l \in Vista.libros :
                /\ a \notin consulta.antes.autores /\ l \notin consulta.antes.libros
                /\ a.nombre = PyStr("Nuevo Autor") /\ l.titulo = PyStr("Nuevo Libro")
                /\ l.autor_id = PyInt(a.id)
                /\ Vista.autores = consulta.antes.autores \cup {a}
                /\ Vista.libros = consulta.antes.libros \cup {l}
        ELSE Contenido(Vista) = consulta.antes

(***************************************************************************)
(* C27: consultar_libros prints one line for every row of libros, for      *)
(* every content of the database that insertar_autores, insertar_libros,   *)
(* actualizar_libro and eliminar_libro can produce, the books with         *)
(* autor_id NULL or matching no author included.                           *)
(***************************************************************************)
C27_UnaLineaPorLibro ==
    consulta.op = "consultar_libros" =>
        Len(consulta.lineas) = Cardinality(Vista.libros)

(***************************************************************************)
(* C28: the guard answers with its own 401 only when the check of the      *)
(* header or of the token failed; when the token is valid and the wrapped  *)
(* handler runs, what the handler returns or raises, a ValueError or a jwt *)
(* exception included, leaves the guard unchanged.                         *)
(***************************************************************************)
C28_HandlerResultPropagated ==
    wrapped.ran => wrapped.result = wrapped.func

(***************************************************************************)
(* C29: under the non-decreasing clock expiry is permanent: once a request *)
(* presenting a token has been rejected, as expired or otherwise, every    *)
(* later request presenting the same token is rejected too; and a token is *)
(* accepted at a time only if the guard accepts it at every earlier time   *)
(* since its iat.                                                          *)
(***************************************************************************)
\* the i-th kept token is presented as "Bearer <token>"
PresentedHeld(i) ==
    /\ IsSecretRequest /\ i <= Len(held)
    /\ request.header = HeaderOf("Bearer", held[i].token)

AcceptedOnlyIfAcceptableBefore ==
    (IsSecretRequest /\ HandlerRan) =>
        \A t \in Instants :
            (ReqToken.claims.iat * TicksPerSec <= t /\ t <= request.at)
                => decorated_function(request.header, t).handler = 1

C29_ExpiryPermanent ==
    /\ []AcceptedOnlyIfAcceptableBefore
    /\ \A i \in 1..2 :
           []((PresentedHeld(i) /\ ~HandlerRan)
                  => [](PresentedHeld(i) => ~HandlerRan))

\* a kept token is rejected as expired a second after its expiry was reached
C29_Witness ==
    /\ PresentedHeld(1)
    /\ response = ExpiredResponse
    /\ request.at >= (ReqToken.claims.exp + 1) * TicksPerSec
====
